---- MODULE Spec2Model ----
(***************************************************************************)
(* Model of src/live.py: a periodic trading cycle (run_cycle) that keeps   *)
(* one position in a JSON state file and appends closed trades to a CSV    *)
(* journal.                                                                *)
(*                                                                         *)
(* Units.  Prices and money are fixed-point integers, PriceScale units per *)
(* dollar.  The input prices are multiples of PriceUnit, for which the     *)
(* take-profit and stop-loss levels, the quantity and the P&L are whole    *)
(* numbers, so the arithmetic of the code is reproduced exactly (the       *)
(* floating-point rounding error of the Python build is not modelled).     *)
(* Timestamps are minutes.                                                 *)
(***************************************************************************)
EXTENDS Integers, Sequences, FiniteSets, TLC

\* ---- settings (src/live.py:9-13) ----
LEVERAGE == 20
INITIAL_CAPITAL == 1200
TP_PCT == 5
SL_PCT == 15
PCT_DEN == 10000
ATR_MIN == 8
ATR_MAX == 18
COOLDOWN_MINS == 30
ATR_WINDOW == 14

\* ---- fixed-point scale and bounds of the model ----
PriceScale == PCT_DEN
PriceUnit == PCT_DEN \div TP_PCT
MaxCloses == 2
MaxTime == 30

Closes == {PriceUnit, 2 * PriceUnit}
Times == {t \in 0..MaxTime : t % COOLDOWN_MINS \in {0, COOLDOWN_MINS - 1}}

\* inflight: the run_cycle invocations that are started and not finished, each
\* with the state it loaded (none in Spec, where a cycle is one step)
VARIABLES stateFile, journalFile, clock, cycle, inflight

vars == <<stateFile, journalFile, clock, cycle, inflight>>

\* ---- timestamps: now_ts.isoformat() and pd.to_datetime ----
isoformat(ts) == <<ts \div 60, ts % 60>>

to_datetime(iso) == iso[1] * 60 + iso[2]

\* ---- round(x, 2) and round(x, 4): round half to even to a multiple of unit
RoundTo(x, unit) ==
    LET q == x \div unit
        r == x % unit
    IN  IF 2 * r < unit THEN q * unit
        ELSE IF 2 * r > unit THEN (q + 1) * unit
        ELSE IF q % 2 = 0 THEN q * unit ELSE (q + 1) * unit

Round2(x) == RoundTo(x, PriceScale \div 100)

Round4(x) == RoundTo(x, 1)

\* ---- the state file ----
\* kind: "absent" (no file yet), "json" (a dumped state), "torn" (truncated by
\* open(..., 'w') and not completely written)
DefaultState ==
    [balance |-> INITIAL_CAPITAL * PriceScale, active_trade |-> <<>>, last_exit_time |-> <<>>]

FileOf(kind, state) ==
    [kind |-> kind, balance |-> state.balance, active_trade |-> state.active_trade,
     last_exit_time |-> state.last_exit_time]

load_state(file) ==
    IF file.kind = "absent" THEN DefaultState
    ELSE [balance |-> file.balance, active_trade |-> file.active_trade,
          last_exit_time |-> file.last_exit_time]

save_state(state) == FileOf("json", state)

TornFile == FileOf("torn", DefaultState)

\* ---- the journal ----
\* mutant: the file is opened with mode 'w' at line 31, so earlier rows are lost
log_to_journal_Truncates(jf, trade_data) ==
    [exists |-> TRUE, headers |-> 1, rows |-> <<trade_data>>]

log_to_journal(jf, trade_data) ==
    [exists |-> TRUE,
     headers |-> IF jf.exists THEN jf.headers ELSE jf.headers + 1,
     rows |-> Append(jf.rows, trade_data)]

\* ---- monitoring of the active trade (src/live.py:59-75) ----
\* mutants of the guard of line 59: the wrong key is tested; the guard is dropped
HasActiveTrade_WrongKey(state) == state.last_exit_time # <<>>

HasActiveTrade_Never(state) == FALSE

HasActiveTrade(state) == state.active_trade # <<>>

\* mutant: strict comparisons at line 61
hit_tp_Strict(t, high, low) == IF t.type = "LONG" THEN high > t.tp ELSE low < t.tp

hit_tp(t, high, low) == IF t.type = "LONG" THEN high >= t.tp ELSE low <= t.tp

hit_sl(t, high, low) == IF t.type = "LONG" THEN low <= t.sl ELSE high >= t.sl

\* mutant: the conditional of line 65 inverted
exit_p_Inverted(t, hitTp) == IF ~hitTp THEN t.tp ELSE t.sl

exit_p(t, hitTp) == IF hitTp THEN t.tp ELSE t.sl

\* mutant: the quantity is recomputed from the notional at the exit price
pnl_Requantified(t, exitP) ==
    IF t.type = "LONG" THEN (exitP - t.entry_price) * ((t.qty * t.entry_price) \div exitP)
    ELSE (t.entry_price - exitP) * ((t.qty * t.entry_price) \div exitP)

\* mutant: the LONG formula used for both directions
pnl_Unsigned(t, exitP) == (exitP - t.entry_price) * t.qty

pnl(t, exitP) ==
    IF t.type = "LONG" THEN (exitP - t.entry_price) * t.qty
    ELSE (t.entry_price - exitP) * t.qty

trade_row(t, now_ts, exitP, p, balance) ==
    [entry_time |-> t.entry_time, exit_time |-> isoformat(now_ts), type |-> t.type,
     entry_price |-> Round2(t.entry_price), exit_price |-> Round2(exitP),
     qty |-> Round4(t.qty), pnl |-> Round2(p), final_balance |-> Round2(balance)]

ClosedState(state, now_ts, p) ==
    [balance |-> state.balance + p, active_trade |-> <<>>,
     last_exit_time |-> isoformat(now_ts)]

\* log_to_journal (line 68) runs before save_state (line 75): when it raises,
\* the state file is the one that was loaded
\* mutant: the state is saved before the journal row is written
PersistedOnJournalFailure_SaveFirst(file, closed) == save_state(closed)

PersistedOnJournalFailure(file, closed) == file

\* ---- entry logic (src/live.py:79-97) ----
\* mutant: the cooldown duration is not added to the last exit
InCooldown_NoDelta(state, now_ts) ==
    /\ state.last_exit_time # <<>>
    /\ now_ts < to_datetime(state.last_exit_time)

InCooldown(state, now_ts) ==
    /\ state.last_exit_time # <<>>
    /\ now_ts < to_datetime(state.last_exit_time) + COOLDOWN_MINS

\* mutant: the upper end of the band is not tested
AtrInBand_NoUpper(n, sumRange) ==
    /\ n >= ATR_WINDOW
    /\ ATR_MIN * PriceScale * ATR_WINDOW <= sumRange

\* mutant: rolling mean over the bars there are (min_periods = 1)
AtrInBand_MinPeriods(n, sumRange) ==
    LET k == IF n < ATR_WINDOW THEN n ELSE ATR_WINDOW
    IN  /\ ATR_MIN * PriceScale * k <= sumRange
        /\ sumRange <= ATR_MAX * PriceScale * k

\* atr = mean of the last ATR_WINDOW (high - low); NaN with fewer bars, and
\* every comparison with NaN is false
AtrInBand(n, sumRange) ==
    /\ n >= ATR_WINDOW
    /\ ATR_MIN * PriceScale * ATR_WINDOW <= sumRange
    /\ sumRange <= ATR_MAX * PriceScale * ATR_WINDOW

\* mutant: the bar's open is not compared
direction_IgnoresOpen(price, ema_val, open) ==
    IF price > ema_val THEN "LONG"
    ELSE IF price < ema_val THEN "SHORT"
    ELSE "NONE"

direction(price, ema_val, open) ==
    IF price > ema_val /\ price > open THEN "LONG"
    ELSE IF price < ema_val /\ price < open THEN "SHORT"
    ELSE "NONE"

\* mutant: the quantity of line 95 without the leverage
new_trade_Unlevered(dir, now_ts, price, balance) ==
    [type |-> dir, entry_time |-> isoformat(now_ts), entry_price |-> price,
     qty |-> balance \div price,
     tp |-> IF dir = "LONG" THEN (price * (PCT_DEN + TP_PCT)) \div PCT_DEN
            ELSE (price * (PCT_DEN - TP_PCT)) \div PCT_DEN,
     sl |-> IF dir = "LONG" THEN (price * (PCT_DEN - SL_PCT)) \div PCT_DEN
            ELSE (price * (PCT_DEN + SL_PCT)) \div PCT_DEN]

\* mutant: the SHORT levels of lines 93-94 are not reversed
new_trade_LongLevels(dir, now_ts, price, balance) ==
    [type |-> dir, entry_time |-> isoformat(now_ts), entry_price |-> price,
     qty |-> (balance * LEVERAGE) \div price,
     tp |-> (price * (PCT_DEN + TP_PCT)) \div PCT_DEN,
     sl |-> (price * (PCT_DEN - SL_PCT)) \div PCT_DEN]

new_trade(dir, now_ts, price, balance) ==
    [type |-> dir, entry_time |-> isoformat(now_ts), entry_price |-> price,
     qty |-> (balance * LEVERAGE) \div price,
     tp |-> IF dir = "LONG" THEN (price * (PCT_DEN + TP_PCT)) \div PCT_DEN
            ELSE (price * (PCT_DEN - TP_PCT)) \div PCT_DEN,
     sl |-> IF dir = "LONG" THEN (price * (PCT_DEN - SL_PCT)) \div PCT_DEN
            ELSE (price * (PCT_DEN + SL_PCT)) \div PCT_DEN]

OpenedState(state, dir, now_ts, price) ==
    [state EXCEPT !.active_trade = <<new_trade(dir, now_ts, price, state.balance)>>]

\* ---- what the last cycle read and decided (its locals and its log line) ----
NoObs ==
    [event |-> "init", branch |-> "none", err |-> "none", now_ts |-> 0, price |-> 0, high |-> 0, low |-> 0,
     open |-> 0, ema |-> 0, n |-> 0, sumRange |-> 0, exit_p |-> 0, pnl |-> 0]

Failed(obs, step) == [obs EXCEPT !.event = "error", !.err = step]

\* ---- the data source (get_data) ----
\* the latest bar's timestamp never goes back; highs and lows are the close,
\* the close moved by TP_PCT, or the close moved by SL_PCT
BarTimes == {t \in Times : t >= clock}

Highs(price) ==
    {price, (price * (PCT_DEN + TP_PCT)) \div PCT_DEN, (price * (PCT_DEN + SL_PCT)) \div PCT_DEN}

Lows(price) ==
    {price, (price * (PCT_DEN - TP_PCT)) \div PCT_DEN, (price * (PCT_DEN - SL_PCT)) \div PCT_DEN}

Opens(price) == {price - price \div PriceUnit, price, price + price \div PriceUnit}

Emas(price) == {price - 1, price, price + 1}

\* (number of bars, sum of the last ATR_WINDOW ranges)
Windows ==
    {<<ATR_WINDOW - 1, ATR_MIN * PriceScale * (ATR_WINDOW - 1)>>}
    \cup {<<ATR_WINDOW, s>> : s \in
            {ATR_MIN * PriceScale * ATR_WINDOW - 1, ATR_MIN * PriceScale * ATR_WINDOW,
             ATR_MAX * PriceScale * ATR_WINDOW, ATR_MAX * PriceScale * ATR_WINDOW + 1}}

Init ==
    /\ stateFile = FileOf("absent", DefaultState)
    /\ journalFile = [exists |-> FALSE, headers |-> 0, rows |-> <<>>]
    /\ clock = 0
    /\ cycle = NoObs
    /\ inflight = <<>>

\* load_state raises: the file is torn, or reading it fails
CycleLoadFails ==
    /\ stateFile.kind # "absent"
    /\ UNCHANGED inflight
    /\ cycle' = Failed(NoObs, "load")
    /\ UNCHANGED <<stateFile, journalFile, clock>>

\* get_data raises, or the response has no usable latest bar
CycleFetchFails ==
    /\ stateFile.kind # "torn"
    /\ UNCHANGED inflight
    /\ cycle' = Failed(NoObs, "fetch")
    /\ UNCHANGED <<stateFile, journalFile, clock>>

\* df.empty
CycleEmpty ==
    /\ stateFile.kind # "torn"
    /\ UNCHANGED inflight
    /\ cycle' = [NoObs EXCEPT !.event = "empty"]
    /\ UNCHANGED <<stateFile, journalFile, clock>>


\* ---- the monitor branch: state['active_trade'] is set ----
\* mutant: the exit is filled at the bar's close
MonitorObs_CloseFill(t, now_ts, price, high, low) ==
    LET tp == hit_tp(t, high, low)
        sl == hit_sl(t, high, low)
    IN  [NoObs EXCEPT !.event = IF tp \/ sl THEN "close" ELSE "hold",
                      !.branch = "monitor",
                      !.now_ts = now_ts, !.price = price, !.high = high, !.low = low,
                      !.exit_p = IF tp \/ sl THEN price ELSE 0,
                      !.pnl = IF tp \/ sl THEN pnl(t, price) ELSE 0]

MonitorObs(t, now_ts, price, high, low) ==
    LET tp == hit_tp(t, high, low)
        sl == hit_sl(t, high, low)
    IN  [NoObs EXCEPT !.event = IF tp \/ sl THEN "close" ELSE "hold",
                      !.branch = "monitor",
                      !.now_ts = now_ts, !.price = price, !.high = high, !.low = low,
                      !.exit_p = IF tp \/ sl THEN exit_p(t, tp) ELSE 0,
                      !.pnl = IF tp \/ sl THEN pnl(t, exit_p(t, tp)) ELSE 0]

\* neither level is hit: return without writing anything
CycleHold ==
    /\ stateFile.kind # "torn"
    /\ UNCHANGED inflight
    /\ HasActiveTrade(load_state(stateFile))
    /\ \E now_ts \in BarTimes, price \in Closes :
         \E high \in Highs(price), low \in Lows(price) :
            LET t == load_state(stateFile).active_trade[1]
                obs == MonitorObs(t, now_ts, price, high, low)
            IN  /\ obs.event = "hold"
                /\ cycle' = obs
                /\ clock' = now_ts
                /\ UNCHANGED <<stateFile, journalFile>>

\* a level is hit: balance += pnl, journal row, trade cleared, state saved
CycleClose ==
    /\ stateFile.kind # "torn"
    /\ UNCHANGED inflight
    /\ HasActiveTrade(load_state(stateFile))
    /\ Len(journalFile.rows) < MaxCloses
    /\ \E now_ts \in BarTimes, price \in Closes :
         \E high \in Highs(price), low \in Lows(price) :
            LET state == load_state(stateFile)
                t == state.active_trade[1]
                obs == MonitorObs(t, now_ts, price, high, low)
            IN  /\ obs.event = "close"
                /\ journalFile' = log_to_journal(journalFile,
                        trade_row(t, now_ts, obs.exit_p, obs.pnl, state.balance + obs.pnl))
                /\ stateFile' = save_state(ClosedState(state, now_ts, obs.pnl))
                /\ cycle' = obs
                /\ clock' = now_ts

\* a level is hit and log_to_journal raises: nothing is written
CycleCloseJournalFails ==
    /\ stateFile.kind # "torn"
    /\ UNCHANGED inflight
    /\ HasActiveTrade(load_state(stateFile))
    /\ \E now_ts \in BarTimes, price \in Closes :
         \E high \in Highs(price), low \in Lows(price) :
            LET state == load_state(stateFile)
                t == state.active_trade[1]
                obs == MonitorObs(t, now_ts, price, high, low)
            IN  /\ obs.event = "close"
                /\ stateFile' = PersistedOnJournalFailure(stateFile,
                                    ClosedState(state, now_ts, obs.pnl))
                /\ cycle' = Failed(obs, "journal")
                /\ clock' = now_ts
                /\ UNCHANGED journalFile

\* a level is hit, the row is appended and save_state raises: open() fails and
\* the file is as before, or the write fails and the file is torn
CycleCloseSaveFails ==
    /\ stateFile.kind # "torn"
    /\ UNCHANGED inflight
    /\ HasActiveTrade(load_state(stateFile))
    /\ Len(journalFile.rows) < MaxCloses
    /\ \E now_ts \in BarTimes, price \in Closes :
         \E high \in Highs(price), low \in Lows(price) :
            LET state == load_state(stateFile)
                t == state.active_trade[1]
                obs == MonitorObs(t, now_ts, price, high, low)
            IN  /\ obs.event = "close"
                /\ journalFile' = log_to_journal(journalFile,
                        trade_row(t, now_ts, obs.exit_p, obs.pnl, state.balance + obs.pnl))
                /\ \/ UNCHANGED stateFile
                   \/ stateFile' = TornFile
                /\ cycle' = Failed(obs, "save")
                /\ clock' = now_ts

\* ---- the entry branch: no active trade ----
EntryObs(now_ts, price, open, ema_val, w) ==
    LET dir == direction(price, ema_val, open)
    IN  [NoObs EXCEPT !.event = IF ~AtrInBand(w[1], w[2]) THEN "skip"
                                ELSE IF dir = "NONE" THEN "flat" ELSE "open",
                      !.branch = "entry",
                      !.now_ts = now_ts, !.price = price, !.open = open,
                      !.ema = ema_val, !.n = w[1], !.sumRange = w[2]]

\* the cooldown after the last exit has not elapsed: return
CycleCooldown ==
    /\ stateFile.kind # "torn"
    /\ UNCHANGED inflight
    /\ ~HasActiveTrade(load_state(stateFile))
    /\ \E now_ts \in BarTimes, price \in Closes :
         /\ InCooldown(load_state(stateFile), now_ts)
         /\ cycle' = [NoObs EXCEPT !.event = "cooldown", !.branch = "entry",
                                 !.now_ts = now_ts, !.price = price]
         /\ clock' = now_ts
         /\ UNCHANGED <<stateFile, journalFile>>

\* the indicator computation raises
CycleIndicatorsFail ==
    /\ stateFile.kind # "torn"
    /\ UNCHANGED inflight
    /\ ~HasActiveTrade(load_state(stateFile))
    /\ \E now_ts \in BarTimes, price \in Closes :
         /\ ~InCooldown(load_state(stateFile), now_ts)
         /\ cycle' = Failed([NoObs EXCEPT !.branch = "entry", !.now_ts = now_ts,
                                        !.price = price], "indicators")
         /\ clock' = now_ts
         /\ UNCHANGED <<stateFile, journalFile>>

\* indicators computed: open a trade and save, or do nothing
CycleEntry ==
    /\ stateFile.kind # "torn"
    /\ UNCHANGED inflight
    /\ ~HasActiveTrade(load_state(stateFile))
    /\ \E now_ts \in BarTimes, price \in Closes :
         /\ ~InCooldown(load_state(stateFile), now_ts)
         /\ \E open \in Opens(price), ema_val \in Emas(price), w \in Windows :
              LET state == load_state(stateFile)
                  obs == EntryObs(now_ts, price, open, ema_val, w)
              IN  /\ stateFile' = IF obs.event = "open"
                                  THEN save_state(OpenedState(state,
                                          direction(price, ema_val, open), now_ts, price))
                                  ELSE stateFile
                  /\ cycle' = obs
                  /\ clock' = now_ts
                  /\ UNCHANGED journalFile

\* a trade is selected and save_state raises
CycleEntrySaveFails ==
    /\ stateFile.kind # "torn"
    /\ UNCHANGED inflight
    /\ ~HasActiveTrade(load_state(stateFile))
    /\ \E now_ts \in BarTimes, price \in Closes :
         /\ ~InCooldown(load_state(stateFile), now_ts)
         /\ \E open \in Opens(price), ema_val \in Emas(price), w \in Windows :
              LET obs == EntryObs(now_ts, price, open, ema_val, w)
              IN  /\ obs.event = "open"
                  /\ \/ UNCHANGED stateFile
                     \/ stateFile' = TornFile
                  /\ cycle' = Failed(obs, "save")
                  /\ clock' = now_ts
                  /\ UNCHANGED journalFile

run_cycle ==
    \/ CycleLoadFails
    \/ CycleFetchFails
    \/ CycleEmpty
    \/ CycleHold
    \/ CycleClose
    \/ CycleCloseJournalFails
    \/ CycleCloseSaveFails
    \/ CycleCooldown
    \/ CycleIndicatorsFail
    \/ CycleEntry
    \/ CycleEntrySaveFails

Next == run_cycle

Spec == Init /\ [][Next]_vars

\* ---- sanity of the fixed-point arithmetic ----
ExactArithmetic ==
    /\ stateFile.active_trade # <<>> =>
         LET t == stateFile.active_trade[1]
         IN  /\ t.qty * t.entry_price = stateFile.balance * LEVERAGE
             /\ t.type = "LONG" => /\ (t.tp - t.entry_price) * PCT_DEN = t.entry_price * TP_PCT
                                   /\ (t.entry_price - t.sl) * PCT_DEN = t.entry_price * SL_PCT
             /\ t.type = "SHORT" => /\ (t.entry_price - t.tp) * PCT_DEN = t.entry_price * TP_PCT
                                    /\ (t.sl - t.entry_price) * PCT_DEN = t.entry_price * SL_PCT


\* ---- readings of the persisted files used by the properties ----
Readable(file) == file.kind # "torn"

Position(file) == file.active_trade

LastRow(jf) == jf.rows[Len(jf.rows)]

Minutes(iso) == iso[1] * 60 + iso[2]

\* realized P&L of trade t closed at level x, as the specification defines it
RealizedPnl(t, x) ==
    IF t.type = "LONG" THEN (x - t.entry_price) * t.qty ELSE (t.entry_price - x) * t.qty

\* C1: the state holds at most one open position; a position is created only
\* by a cycle that loaded a state without a position, so two entries are always
\* separated by a close.
C1_EntryOnlyWhenFlat ==
    [][/\ Len(Position(stateFile')) <= 1
       /\ (cycle'.event = "open" \/ (Position(stateFile') # <<>>
                                      /\ Position(stateFile') # Position(stateFile)))
            => /\ Position(stateFile) = <<>>
               /\ Readable(stateFile)]_vars

\* C1 witness: a second position is open after the first one was closed
C1_Witness ==
    /\ cycle.event = "open"
    /\ Position(stateFile) # <<>>
    /\ stateFile.last_exit_time # <<>>
    /\ Len(journalFile.rows) >= 1

\* C2: between readable snapshots the balance changes only in a cycle that
\* closes the open position, and then by exactly the realized P&L at the
\* take-profit or the stop-loss level; every other cycle leaves it unchanged.
C2_BalanceOnlyOnClose ==
    [][Readable(stateFile') =>
         LET b0 == load_state(stateFile).balance
             b1 == load_state(stateFile').balance
         IN  /\ b1 # b0 =>
                  /\ cycle'.event = "close"
                  /\ Position(stateFile) # <<>>
                  /\ Position(stateFile') = <<>>
                  /\ \E x \in {Position(stateFile)[1].tp, Position(stateFile)[1].sl} :
                        /\ x = cycle'.exit_p
                        /\ b1 - b0 = RealizedPnl(Position(stateFile)[1], x)
             /\ cycle'.event = "close" =>
                  /\ b1 - b0 = RealizedPnl(Position(stateFile)[1], cycle'.exit_p)
                  /\ b1 # b0
             /\ cycle'.event \in {"open", "hold", "cooldown", "skip", "flat", "empty"}
                  => b1 = b0]_vars

\* C2 witness: a close has changed the balance
C2_Witness ==
    /\ cycle.event = "close"
    /\ Readable(stateFile)
    /\ stateFile.balance # INITIAL_CAPITAL * PriceScale
    /\ stateFile.balance - cycle.pnl = INITIAL_CAPITAL * PriceScale

\* C3: a position is opened, and entry is evaluated at all, only when there is
\* no position and the latest bar is at least COOLDOWN_MINS after the
\* persisted last exit (or there was no exit).
C3_NoEntryInCooldown ==
    [][(cycle'.event \in {"open", "flat", "skip"}
        \/ (Position(stateFile') # <<>> /\ Position(stateFile') # Position(stateFile)))
         => /\ Position(stateFile) = <<>>
            /\ \/ load_state(stateFile).last_exit_time = <<>>
               \/ cycle'.now_ts - Minutes(load_state(stateFile).last_exit_time)
                     >= COOLDOWN_MINS]_vars

\* C3 witness: a position opened exactly COOLDOWN_MINS after the last exit
C3_Witness ==
    /\ cycle.event = "open"
    /\ Position(stateFile) # <<>>
    /\ stateFile.last_exit_time # <<>>
    /\ Minutes(Position(stateFile)[1].entry_time) - Minutes(stateFile.last_exit_time)
          = COOLDOWN_MINS

\* C4 as stated: the exit price used for the P&L and the exit_price of the
\* journal row are exactly the take-profit or the stop-loss level of the
\* position.
C4_ExitPriceExactInRow ==
    [][cycle'.event = "close" =>
         LET t == Position(stateFile)[1]
         IN  /\ cycle'.exit_p \in {t.tp, t.sl}
             /\ LastRow(journalFile').exit_price \in {t.tp, t.sl}]_vars

\* C4 amended: the exit price used for the P&L is exactly the take-profit or
\* the stop-loss level fixed at entry, whatever the bar's close is; the
\* exit_price of the journal row is that level rounded to two decimals.
C4_ExitPriceIsLevel ==
    [][cycle'.event = "close" =>
         LET t == Position(stateFile)[1]
             r == LastRow(journalFile')
             cent == PriceScale \div 100
         IN  /\ cycle'.exit_p \in {t.tp, t.sl}
             /\ cycle'.exit_p # cycle'.price
             /\ cycle'.pnl = RealizedPnl(t, cycle'.exit_p)
             /\ load_state(stateFile').balance - load_state(stateFile).balance
                   = RealizedPnl(t, cycle'.exit_p)
             /\ r.exit_price % cent = 0
             /\ 2 * (r.exit_price - cycle'.exit_p) \in (0 - cent)..cent]_vars

\* C4 witness: a close whose level is not a whole number of cents
C4_Witness ==
    /\ cycle.event = "close"
    /\ Len(journalFile.rows) >= 1
    /\ LastRow(journalFile).exit_price # cycle.exit_p
    /\ cycle.exit_p # cycle.price

\* C5: when the latest bar reaches both the take-profit and the stop-loss
\* level of the position, the position is closed at the take-profit level and
\* the realized P&L is that of the take-profit.
C5_TakeProfitWinsTie ==
    [][(cycle'.event = "close" /\ Position(stateFile) # <<>>) =>
         LET t == Position(stateFile)[1]
             both == IF t.type = "LONG"
                     THEN cycle'.high >= t.tp /\ cycle'.low <= t.sl
                     ELSE cycle'.low <= t.tp /\ cycle'.high >= t.sl
         IN  both => /\ cycle'.exit_p = t.tp
                     /\ cycle'.pnl = RealizedPnl(t, t.tp)
                     /\ load_state(stateFile').balance
                           = load_state(stateFile).balance + RealizedPnl(t, t.tp)]_vars

\* C5 witness: a LONG closed by a bar that reaches both levels
C5_Witness ==
    /\ cycle.event = "close"
    /\ Len(journalFile.rows) >= 1
    /\ LastRow(journalFile).type = "LONG"
    /\ cycle.high * PCT_DEN >= LastRow(journalFile).entry_price * (PCT_DEN + TP_PCT)
    /\ cycle.low * PCT_DEN <= LastRow(journalFile).entry_price * (PCT_DEN - SL_PCT)
    /\ cycle.pnl > 0

\* C6: a cycle that loads an open position does not evaluate entry: it leaves
\* the position as it is or clears it, never replaces it; and a cycle that
\* loads no position writes no journal row. So one cycle never both opens and
\* closes.
C6_MonitorThenReturn ==
    [][/\ Position(stateFile) # <<>> =>
            /\ cycle'.branch # "entry"
            /\ cycle'.event \notin {"open", "flat", "skip", "cooldown"}
            /\ Position(stateFile') \in {Position(stateFile), <<>>}
       /\ Position(stateFile) = <<>> =>
            /\ cycle'.branch # "monitor"
            /\ journalFile' = journalFile
            /\ Readable(stateFile') =>
                  load_state(stateFile').last_exit_time = load_state(stateFile).last_exit_time
       /\ cycle'.event = "open" => Position(stateFile') # <<>>
       /\ cycle'.event = "close" => Position(stateFile') = <<>>]_vars

\* C6 witness: a cycle that found a position, only monitored it and kept it
C6_Witness ==
    /\ cycle.event = "hold"
    /\ cycle.branch = "monitor"
    /\ Position(stateFile) # <<>>

\* C7: with no position and the cooldown elapsed, the cycle goes on to select
\* a direction exactly when the volatility is inside [ATR_MIN, ATR_MAX], both
\* ends included; outside the band (or with fewer than ATR_WINDOW bars) nothing
\* is opened and no file changes.
C7_VolatilityBand ==
    [][cycle'.branch = "entry" /\ cycle'.event \in {"open", "flat", "skip"} =>
         LET inBand == /\ cycle'.n >= ATR_WINDOW
                       /\ cycle'.sumRange >= ATR_MIN * PriceScale * ATR_WINDOW
                       /\ cycle'.sumRange <= ATR_MAX * PriceScale * ATR_WINDOW
         IN  /\ cycle'.event = "open" => inBand
             /\ inBand => cycle'.event # "skip"
             /\ ~inBand => /\ cycle'.event = "skip"
                           /\ stateFile' = stateFile
                           /\ journalFile' = journalFile]_vars

\* C7 witness: a position opened with the volatility exactly ATR_MIN
C7_Witness ==
    /\ cycle.event = "open"
    /\ cycle.sumRange = ATR_MIN * PriceScale * ATR_WINDOW
    /\ Position(stateFile) # <<>>

\* C8: with the volatility inside the band, LONG is opened exactly when
\* close > trend and close > open, SHORT exactly when close < trend and
\* close < open, nothing is opened otherwise; the position's entry_price is
\* the latest close.
C8_DirectionRule ==
    [][cycle'.branch = "entry" /\ cycle'.event \in {"open", "flat"} =>
         LET long == cycle'.price > cycle'.ema /\ cycle'.price > cycle'.open
             short == cycle'.price < cycle'.ema /\ cycle'.price < cycle'.open
         IN  /\ ~(long /\ short)
             /\ long => /\ cycle'.event = "open"
                        /\ Position(stateFile') # <<>>
                        /\ Position(stateFile')[1].type = "LONG"
                        /\ Position(stateFile')[1].entry_price = cycle'.price
             /\ short => /\ cycle'.event = "open"
                         /\ Position(stateFile') # <<>>
                         /\ Position(stateFile')[1].type = "SHORT"
                         /\ Position(stateFile')[1].entry_price = cycle'.price
             /\ (~long /\ ~short) => /\ cycle'.event = "flat"
                                     /\ stateFile' = stateFile
                                     /\ journalFile' = journalFile]_vars

\* C8 witness: LONG opened at the latest close, above trend and open
C8_Witness ==
    /\ cycle.event = "open"
    /\ Position(stateFile) # <<>>
    /\ Position(stateFile)[1].type = "LONG"
    /\ Position(stateFile)[1].entry_price = cycle.price
    /\ cycle.price > cycle.ema
    /\ cycle.price > cycle.open

\* C9 as stated: a cycle that ends in the exception handler leaves the state
\* file and the journal as they were.
C9_FailedCycleIsNoOp ==
    [][cycle'.event = "error" =>
         /\ stateFile' = stateFile
         /\ journalFile' = journalFile]_vars

\* C10: when log_to_journal raises in a closing cycle the state file is not
\* written, the position stays open with the original balance; and a close is
\* persisted only together with its journal row.
C10_NoCloseWithoutRow ==
    [][/\ cycle'.err = "journal" =>
            /\ stateFile' = stateFile
            /\ Position(stateFile') # <<>>
            /\ load_state(stateFile').balance = load_state(stateFile).balance
       /\ (Position(stateFile) # <<>> /\ stateFile'.kind = "json"
           /\ Position(stateFile') = <<>>) =>
            /\ Len(journalFile'.rows) = Len(journalFile.rows) + 1
            /\ LastRow(journalFile').entry_time = Position(stateFile)[1].entry_time
            /\ LastRow(journalFile').exit_time = stateFile'.last_exit_time
            /\ LastRow(journalFile').type = Position(stateFile)[1].type]_vars

\* C10 witness: the journal append failed and the position is still open
C10_Witness ==
    /\ cycle.err = "journal"
    /\ cycle.event = "error"
    /\ Position(stateFile) # <<>>
    /\ cycle.pnl # 0

\* ---- run_cycle in two steps: load_state, then the rest of the cycle ----
\* The cycle is a read-modify-write of the state file: it works on the state
\* it loaded at line 50 and writes the files at lines 68, 75 and 97.  These
\* actions follow cycles over a longer horizon with a small set of bars and no
\* failing step; with two invocations in flight they give the interleavings of
\* two processes started by the scheduler.
RunMaxTime == 60
RunMaxCloses == 3
OverlapMaxTime == 30
OverlapMaxCloses == 2

\* the horizon followed: shorter when invocations overlap
RunHorizon ==
    IF Len(inflight) > 1 THEN [time |-> OverlapMaxTime, closes |-> OverlapMaxCloses]
    ELSE [time |-> RunMaxTime, closes |-> RunMaxCloses]

RunTimes == {t \in 0..RunHorizon.time : t % COOLDOWN_MINS = 0}

RunBarTimes == {t \in RunTimes : t >= clock}

RunCloses == {PriceUnit}

\* (open, trend): close above both, below both, equal to both
RunTrends(price) ==
    {<<price - price \div PriceUnit, price - 1>>, <<price + price \div PriceUnit, price + 1>>,
     <<price, price>>}

RunWindows ==
    {<<ATR_WINDOW - 1, ATR_MIN * PriceScale * (ATR_WINDOW - 1)>>,
     <<ATR_WINDOW, ATR_MIN * PriceScale * ATR_WINDOW>>}

Idle == [pc |-> "idle", state |-> DefaultState]

Loaded(state) == [pc |-> "loaded", state |-> state]

InitSerial ==
    /\ stateFile = FileOf("absent", DefaultState)
    /\ journalFile = [exists |-> FALSE, headers |-> 0, rows |-> <<>>]
    /\ clock = 0
    /\ cycle = NoObs
    /\ inflight = <<Idle>>

InitOverlap ==
    /\ stateFile = FileOf("absent", DefaultState)
    /\ journalFile = [exists |-> FALSE, headers |-> 0, rows |-> <<>>]
    /\ clock = 0
    /\ cycle = NoObs
    /\ inflight = <<Idle, Idle>>

\* state = load_state()
BeginCycle(p) ==
    /\ inflight[p].pc = "idle"
    /\ Readable(stateFile)
    /\ inflight' = [inflight EXCEPT ![p] = Loaded(load_state(stateFile))]
    /\ UNCHANGED <<stateFile, journalFile, clock, cycle>>

\* df.empty: return
EndEmpty(p) ==
    /\ inflight[p].pc = "loaded"
    /\ cycle' = [NoObs EXCEPT !.event = "empty"]
    /\ inflight' = [inflight EXCEPT ![p] = Idle]
    /\ UNCHANGED <<stateFile, journalFile, clock>>

\* the monitor branch on the loaded state: hold, or close, journal and save
EndMonitor(p) ==
    /\ inflight[p].pc = "loaded"
    /\ HasActiveTrade(inflight[p].state)
    /\ \E now_ts \in RunBarTimes, price \in RunCloses, w \in RunWindows :
         \E high \in Highs(price), low \in Lows(price) :
            LET state == inflight[p].state
                t == state.active_trade[1]
                obs == [MonitorObs(t, now_ts, price, high, low) EXCEPT !.n = w[1]]
            IN  /\ obs.event = "close" => Len(journalFile.rows) < RunHorizon.closes
                /\ journalFile' =
                     IF obs.event = "close"
                     THEN log_to_journal(journalFile,
                            trade_row(t, now_ts, obs.exit_p, obs.pnl, state.balance + obs.pnl))
                     ELSE journalFile
                /\ stateFile' =
                     IF obs.event = "close"
                     THEN save_state(ClosedState(state, now_ts, obs.pnl))
                     ELSE stateFile
                /\ cycle' = obs
                /\ clock' = now_ts
                /\ inflight' = [inflight EXCEPT ![p] = Idle]

\* the entry branch on the loaded state: cooldown, or indicators and entry
EndEntry(p) ==
    /\ inflight[p].pc = "loaded"
    /\ ~HasActiveTrade(inflight[p].state)
    /\ \E now_ts \in RunBarTimes, price \in RunCloses :
         LET state == inflight[p].state
         IN  /\ IF InCooldown(state, now_ts)
                THEN /\ cycle' = [NoObs EXCEPT !.event = "cooldown", !.branch = "entry",
                                               !.now_ts = now_ts, !.price = price]
                     /\ UNCHANGED stateFile
                ELSE \E oe \in RunTrends(price), w \in RunWindows :
                        LET obs == EntryObs(now_ts, price, oe[1], oe[2], w)
                        IN  /\ stateFile' =
                                 IF obs.event = "open"
                                 THEN save_state(OpenedState(state,
                                         direction(price, oe[2], oe[1]), now_ts, price))
                                 ELSE stateFile
                            /\ cycle' = obs
             /\ clock' = now_ts
             /\ inflight' = [inflight EXCEPT ![p] = Idle]
             /\ UNCHANGED journalFile

NextStep ==
    \/ \E p \in DOMAIN inflight : BeginCycle(p)
    \/ \E p \in DOMAIN inflight : EndEmpty(p)
    \/ \E p \in DOMAIN inflight : EndMonitor(p)
    \/ \E p \in DOMAIN inflight : EndEntry(p)

\* one invocation at a time
SpecSerial == InitSerial /\ [][NextStep]_vars

\* two invocations that may overlap
SpecOverlap == InitOverlap /\ [][NextStep]_vars

\* a step that finishes an invocation (in SpecSerial and SpecOverlap)
EndStep ==
    \E p \in DOMAIN inflight : inflight[p].pc = "loaded" /\ inflight'[p].pc = "idle"

\* C11 as stated: with no bars, or with fewer than ATR_WINDOW bars, the cycle
\* changes neither the state file nor the journal.
C11_ShortWindowIsNoOp ==
    [][(EndStep /\ (cycle'.event = "empty"
                    \/ (cycle'.event \in {"hold", "close", "skip", "flat", "open"}
                        /\ cycle'.n < ATR_WINDOW)))
         => /\ stateFile' = stateFile
            /\ journalFile' = journalFile]_vars

\* C11 amended: with no bars the cycle is a no-op; with fewer than ATR_WINDOW
\* bars no position is opened, and a cycle that loaded no position is a no-op;
\* a loaded position is still monitored and is left as it is or closed.
C11_ShortWindowNoEntry ==
    [][EndStep =>
         /\ cycle'.event = "empty" => /\ stateFile' = stateFile
                                      /\ journalFile' = journalFile
         /\ (cycle'.event \in {"hold", "close", "skip", "flat", "open"}
             /\ cycle'.n < ATR_WINDOW) =>
               /\ cycle'.event \in {"hold", "close", "skip"}
               /\ Position(stateFile') \in {Position(stateFile), <<>>}
               /\ Position(stateFile) = <<>> => /\ cycle'.event = "skip"
                                                /\ stateFile' = stateFile
                                                /\ journalFile' = journalFile]_vars

\* C11 witness: a flat cycle with ATR_WINDOW - 1 bars and a bar that would give
\* a direction opened nothing
C11_Witness ==
    /\ cycle.event = "skip"
    /\ cycle.n = ATR_WINDOW - 1
    /\ cycle.price > cycle.ema
    /\ cycle.price > cycle.open
    /\ Position(stateFile) = <<>>
    /\ inflight[1].pc = "idle"

\* C12 as stated: overlapping invocations are serialized: an invocation that
\* writes the state file or the journal works on the state that is persisted
\* when it writes (no write of another invocation is overwritten), and no
\* position gets two journal rows.
C12_CyclesSerialized ==
    [][/\ \A p \in DOMAIN inflight :
            (/\ inflight[p].pc = "loaded"
             /\ inflight'[p].pc = "idle"
             /\ (stateFile' # stateFile \/ journalFile' # journalFile))
               => inflight[p].state = load_state(stateFile)
       /\ \A i, j \in 1..Len(journalFile'.rows) :
            i # j => journalFile'.rows[i].entry_time # journalFile'.rows[j].entry_time]_vars

\* the same position closed by two overlapping invocations
C12_DoubleClose ==
    /\ Len(journalFile.rows) = 2
    /\ journalFile.rows[1].entry_time = journalFile.rows[2].entry_time
    /\ journalFile.rows[1].type = journalFile.rows[2].type

\* C13: while a position is open, a cycle that does not close it leaves every
\* field of it as it was; the close uses the stored fields: the journal row
\* carries the stored entry_time and direction, and the P&L is computed from
\* the stored entry_price, qty and level.
C13_PositionFrozen ==
    [][Position(stateFile) # <<>> =>
         LET t == Position(stateFile)[1]
         IN  /\ (Readable(stateFile') /\ cycle'.event # "close")
                  => Position(stateFile') = Position(stateFile)
             /\ cycle'.event = "hold" => stateFile' = stateFile
             /\ cycle'.event = "close" =>
                  LET r == LastRow(journalFile')
                  IN  /\ r.entry_time = t.entry_time
                      /\ r.type = t.type
                      /\ cycle'.exit_p \in {t.tp, t.sl}
                      /\ cycle'.pnl = RealizedPnl(t, cycle'.exit_p)
                      /\ Readable(stateFile') =>
                            load_state(stateFile').balance
                               = load_state(stateFile).balance + RealizedPnl(t, cycle'.exit_p)]_vars

\* C13 witness: a position is held, unchanged, by a cycle on a later bar whose
\* range does not reach its levels
C13_Witness ==
    /\ cycle.event = "hold"
    /\ Position(stateFile) # <<>>
    /\ Minutes(Position(stateFile)[1].entry_time) < cycle.now_ts
    /\ cycle.high # cycle.low
    /\ Position(stateFile)[1].qty * Position(stateFile)[1].entry_price
          = stateFile.balance * LEVERAGE

\* C14: a cycle that monitors an open position closes it exactly when the
\* latest bar reaches a level: LONG high >= tp or low <= sl, SHORT low <= tp
\* or high >= sl, equality included, whatever the bar's close is; otherwise
\* the position stays and neither file changes.
C14_CloseIffTriggered ==
    [][(cycle'.branch = "monitor" /\ Position(stateFile) # <<>>) =>
         LET t == Position(stateFile)[1]
             trig == IF t.type = "LONG"
                     THEN cycle'.high >= t.tp \/ cycle'.low <= t.sl
                     ELSE cycle'.low <= t.tp \/ cycle'.high >= t.sl
         IN  /\ cycle'.event = "hold" <=> ~trig
             /\ trig => cycle'.event \in {"close", "error"}
             /\ cycle'.event = "close" =>
                  /\ Position(stateFile') = <<>>
                  /\ Len(journalFile'.rows) = Len(journalFile.rows) + 1
             /\ ~trig => /\ stateFile' = stateFile
                         /\ journalFile' = journalFile]_vars

\* C14 witness: a LONG closed by a bar whose high equals the take-profit level
\* and whose low stays above the stop-loss level
C14_Witness ==
    /\ cycle.event = "close"
    /\ Len(journalFile.rows) >= 1
    /\ LastRow(journalFile).type = "LONG"
    /\ cycle.high = cycle.exit_p
    /\ cycle.low = cycle.price
    /\ cycle.pnl > 0

\* C15: the position created by an entry has qty = balance at entry * LEVERAGE
\* / entry_price, qty > 0, and levels relative to its direction: LONG
\* sl = entry*(1-SL_PCT) < entry < tp = entry*(1+TP_PCT); SHORT
\* tp = entry*(1-TP_PCT) < entry < sl = entry*(1+SL_PCT).
C15_EntrySizingAndLevels ==
    [][(cycle'.event = "open" /\ Position(stateFile') # <<>>) =>
         LET t == Position(stateFile')[1]
             balance == load_state(stateFile).balance
         IN  /\ t.entry_price = cycle'.price
             /\ t.entry_price > 0
             /\ t.qty > 0
             /\ t.qty * t.entry_price = balance * LEVERAGE
             /\ t.type \in {"LONG", "SHORT"}
             /\ t.type = "LONG" =>
                  /\ t.sl < t.entry_price /\ t.entry_price < t.tp
                  /\ t.tp * PCT_DEN = t.entry_price * (PCT_DEN + TP_PCT)
                  /\ t.sl * PCT_DEN = t.entry_price * (PCT_DEN - SL_PCT)
             /\ t.type = "SHORT" =>
                  /\ t.tp < t.entry_price /\ t.entry_price < t.sl
                  /\ t.tp * PCT_DEN = t.entry_price * (PCT_DEN - TP_PCT)
                  /\ t.sl * PCT_DEN = t.entry_price * (PCT_DEN + SL_PCT)]_vars

\* C15 witness: a SHORT entered on a balance that an earlier close has changed
C15_Witness ==
    /\ cycle.event = "open"
    /\ Position(stateFile) # <<>>
    /\ Position(stateFile)[1].type = "SHORT"
    /\ stateFile.balance # INITIAL_CAPITAL * PriceScale
    /\ Position(stateFile)[1].qty * Position(stateFile)[1].entry_price
         = stateFile.balance * LEVERAGE

\* C16 as stated: after a cycle that closes a position the state has no
\* position, last_exit_time is the latest bar's timestamp, the balance has
\* grown by the realized P&L, and the journal has exactly one more row, whose
\* final_balance is the new balance, with the earlier rows unchanged.
C16_RowHasNewBalance ==
    [][(EndStep /\ cycle'.event = "close") =>
         /\ Position(stateFile') = <<>>
         /\ stateFile'.last_exit_time = isoformat(cycle'.now_ts)
         /\ stateFile'.balance = load_state(stateFile).balance + cycle'.pnl
         /\ Len(journalFile'.rows) = Len(journalFile.rows) + 1
         /\ SubSeq(journalFile'.rows, 1, Len(journalFile.rows)) = journalFile.rows
         /\ LastRow(journalFile').final_balance = stateFile'.balance]_vars

\* C16 amended: the same, with the row's final_balance being the new balance
\* rounded to two decimals.
C16_RowHasRoundedBalance ==
    [][(EndStep /\ cycle'.event = "close") =>
         /\ Position(stateFile') = <<>>
         /\ stateFile'.last_exit_time = isoformat(cycle'.now_ts)
         /\ stateFile'.balance = load_state(stateFile).balance + cycle'.pnl
         /\ Len(journalFile'.rows) = Len(journalFile.rows) + 1
         /\ SubSeq(journalFile'.rows, 1, Len(journalFile.rows)) = journalFile.rows
         /\ LastRow(journalFile').final_balance = Round2(stateFile'.balance)]_vars

\* C16 witness: a close after which the balance is not a whole number of cents,
\* recorded after two earlier rows
C16_Witness ==
    /\ cycle.event = "close"
    /\ Len(journalFile.rows) >= 3
    /\ Position(stateFile) = <<>>
    /\ stateFile.balance = journalFile.rows[2].final_balance + cycle.pnl
    /\ Round2(stateFile.balance) # stateFile.balance
    /\ LastRow(journalFile).final_balance = Round2(stateFile.balance)

\* C17 as stated, its first part: the machine has no terminal state; in every
\* reachable state a further cycle can be taken that reads the persisted state
\* and reaches its decision (no bar, hold, close, cooldown, or the entry rule).
C17_NoTerminalState ==
    ENABLED (CycleEmpty \/ CycleHold \/ CycleClose \/ CycleCooldown \/ CycleEntry)

\* sum of the pnl column of the journal rows
RECURSIVE JournalPnl(_)
JournalPnl(rows) ==
    IF rows = <<>> THEN 0 ELSE rows[1].pnl + JournalPnl(Tail(rows))

\* C18 as stated: in every reachable state with a readable state file the
\* journal and the state agree: no position has two rows, and the balance is
\* INITIAL_CAPITAL plus the sum of the rows' realized P&L.
C18_LedgerAgreesWithState ==
    Readable(stateFile) =>
        /\ load_state(stateFile).balance
             = INITIAL_CAPITAL * PriceScale + JournalPnl(journalFile.rows)
        /\ \A i, j \in 1..Len(journalFile.rows) :
             i < j => journalFile.rows[i].entry_time # journalFile.rows[j].entry_time

\* C19: a close changes the balance by a fixed fraction of the balance held
\* at entry, whatever the direction and the entry price: a take-profit close
\* adds LEVERAGE*TP_PCT of it and a stop-loss close takes LEVERAGE*SL_PCT of
\* it; so the P&L of a take-profit close is positive, that of a stop-loss
\* close is negative, and the balance stays positive.
C19_FixedFractionPerClose ==
    [][/\ load_state(stateFile').balance > 0
       /\ (cycle'.event = "close" /\ Position(stateFile) # <<>>) =>
            LET t == Position(stateFile)[1]
                b0 == load_state(stateFile).balance
                b1 == load_state(stateFile').balance
            IN  /\ t.qty * t.entry_price = b0 * LEVERAGE
                /\ cycle'.exit_p \in {t.tp, t.sl}
                /\ cycle'.exit_p = t.tp =>
                     /\ (b1 - b0) * (PCT_DEN \div LEVERAGE) = b0 * TP_PCT
                     /\ cycle'.pnl > 0
                /\ cycle'.exit_p = t.sl =>
                     /\ (b0 - b1) * (PCT_DEN \div LEVERAGE) = b0 * SL_PCT
                     /\ cycle'.pnl < 0]_vars

\* C19 witness: a SHORT stopped out at the higher price after a take-profit
\* close at the lower price: 1200 * 1.01 * 0.97
C19_Witness ==
    /\ cycle.event = "close"
    /\ cycle.pnl < 0
    /\ Len(journalFile.rows) = 2
    /\ journalFile.rows[1].pnl > 0
    /\ journalFile.rows[1].entry_price # journalFile.rows[2].entry_price
    /\ journalFile.rows[2].type = "SHORT"
    /\ journalFile.rows[1].final_balance * 100
         = INITIAL_CAPITAL * PriceScale * (100 + (LEVERAGE * TP_PCT) \div 100)
    /\ stateFile.balance * 100
         = journalFile.rows[1].final_balance * (100 - (LEVERAGE * SL_PCT) \div 100)

\* C20 as stated: with latest-bar timestamps that never go back, every row of
\* the journal has an exit_time strictly later than its entry_time.
C20_ExitAfterEntry ==
    \A i \in 1..Len(journalFile.rows) :
        Minutes(journalFile.rows[i].exit_time) > Minutes(journalFile.rows[i].entry_time)

====
